---------------------------- MODULE Spec2Model ----------------------------
(***************************************************************************)
(* Randomized hashing structures of hashing_with_chaining:                 *)
(*   src/main.rs      SeededHash (multiply-shift, u64), HwC (hashing with  *)
(*                    chaining), IndependentHash (4-wise, Mersenne prime), *)
(*                    NormSketch;                                          *)
(*   src/old_main.rs  SeededHash (u32), Bucket, PerfectHashing (FKS).      *)
(*                                                                         *)
(* Machine words are scaled: the key type has W bits (64 in main.rs, 32 in *)
(* old_main.rs) and the Mersenne exponent is Q (31 in the source).  All    *)
(* arithmetic is done modulo 2^W exactly where the source wraps, and an    *)
(* overflow the source checks only in debug builds is a choice of build.   *)
(***************************************************************************)
EXTENDS Integers, Sequences, FiniteSets, TLC

VARIABLES build,     \* "debug" (overflow checks on) or "release" (wrapping)
          status,    \* "ok", or the panic that ended the process
          hwc,       \* the HwC of main.rs: [vec, hash_function]
          sums,      \* history: per key, the exact sum of the values inserted
          inserted,  \* history: keys of the completed insert calls
          nops,      \* number of completed insert / update calls
          last_key,  \* history: key of the latest completed insert call
          norm_out,  \* result of the latest get_norm call
          sk,        \* the NormSketch of main.rs: [vec, hash_function]
          sk_hist,   \* history: the counters two updates ago, the last two updates
          hs,        \* hash kernels under test: [seeded, independent]
          hs_out,    \* result of the latest hash call
          ph,        \* PerfectHashing::new in progress / the built structure
          rng,       \* position of the random source of old_main.rs
          q_out      \* latest PerfectHashing::query call: [key, res]

vars == <<build, status, hwc, sums, inserted, nops, last_key, norm_out,
          sk, sk_hist, hs, hs_out, ph, rng, q_out>>

-----------------------------------------------------------------------------
(* Bounds of the model *)

\* scaled width of the machine word (u64 in main.rs, u32 in old_main.rs)
W == 8
\* scaled exponent of the Mersenne prime (2u64.pow(31) - 1 in main.rs)
Q == 3
\* HwC::new(size) is explored for size in 1..MaxBuckets
MaxBuckets == 4
\* keys given to insert / update are 0..MaxKey
MaxKey == 2
\* small values given to insert are 0..MaxVal (plus one half-range value)
MaxVal == 1
\* number of HwC::insert calls explored
MaxOps == 3
\* number of NormSketch::update calls explored
MaxUpdates == 2
\* scaled depth of the call stack: the number of nested recursive calls of
\* PerfectHashing::new and Bucket::new the stack holds before it overflows
StackFrames == 4

Builds == {"debug", "release"}
Idle == <<>>

-----------------------------------------------------------------------------
(* Machine arithmetic *)

WordMod == 2^W

Ok(v) == [ok |-> TRUE, val |-> v]
Panicked == [ok |-> FALSE, val |-> 0]

wrapping_mul(x, y) == (x * y) % WordMod
wrapping_add(x, y) == (x + y) % WordMod

\* unsigned +, * and pow(2): overflow panics in a debug build and wraps in a
\* release build
checked(v, b) ==
    IF v < WordMod THEN Ok(v)
    ELSE IF b = "debug" THEN Panicked ELSE Ok(v % WordMod)

\* ops::Shr::shr on a word: a shift amount of W or more panics in a debug
\* build and is masked to the word width in a release build
shr(v, n, b) ==
    IF n < W THEN Ok(v \div 2^n)
    ELSE IF b = "debug" THEN Panicked ELSE Ok(v \div 2^(n % W))

\* usize::ilog2 for x >= 1 (it panics on 0; every caller here is guarded)
RECURSIVE log2u(_)
log2u(x) == IF x <= 1 THEN 0 ELSE 1 + log2u(x \div 2)

-----------------------------------------------------------------------------
(* main.rs: SeededHash *)

\* SeededHash::new, given the two values the random source returned
SeededHash_new(hash_len, r1, r2) ==
    [l |-> hash_len,
     a |-> IF r1 % 2 = 0 THEN r1 + 1 ELSE r1,
     b |-> r2]

SeededHash_hash_shift_l(self, x, b) ==
    LET multiply_add == wrapping_add(wrapping_mul(self.a, x), self.b)
    IN  shr(multiply_add, self.l, b)

SeededHash_hash(self, x, b) ==
    LET multiply_add == wrapping_add(wrapping_mul(self.a, x), self.b)
    IN  shr(multiply_add, W - self.l, b)

-----------------------------------------------------------------------------
(* main.rs: HwC *)

HwC_new(size, r1, r2) ==
    [vec |-> [i \in 1..size |-> <<>>],
     hash_function |-> SeededHash_new(log2u(size), r1, r2)]

\* position (1-based) of key among the keys of a flat bucket, 0 when absent
RECURSIVE bucket_find(_, _, _)
bucket_find(bucket, key, i) ==
    IF i > Len(bucket) THEN 0
    ELSE IF bucket[i] = key THEN i
    ELSE bucket_find(bucket, key, i + 2)

\* the scan-and-add of HwC::insert on one bucket: [panic, bucket]
bucket_insert_push(bucket, key, value, b) ==
    [panic |-> "", bucket |-> bucket \o <<key, value>>]

bucket_insert_overwrite(bucket, key, value, b) ==
    LET i == bucket_find(bucket, key, 1)
    IN  IF i # 0
        THEN [panic |-> "", bucket |-> [bucket EXCEPT ![i + 1] = value]]
        ELSE [panic |-> "", bucket |-> bucket \o <<key, value>>]

bucket_insert(bucket, key, value, b) ==
    LET i == bucket_find(bucket, key, 1)
    IN  IF i # 0
        THEN LET s == checked(bucket[i + 1] + value, b)
             IN  IF s.ok
                 THEN [panic |-> "", bucket |-> [bucket EXCEPT ![i + 1] = s.val]]
                 ELSE [panic |-> "add_overflow", bucket |-> bucket]
        ELSE [panic |-> "", bucket |-> bucket \o <<key, value>>]

\* HwC::insert: [panic, self]; panic names the panic that ended the call
HwC_insert(self, key, value, b) ==
    LET hash_val == SeededHash_hash(self.hash_function, key, b)
    IN  IF ~hash_val.ok
        THEN [panic |-> "shift_overflow", self |-> self]
        ELSE IF hash_val.val >= Len(self.vec)
        THEN [panic |-> "index_out_of_bounds", self |-> self]
        ELSE LET r == bucket_insert(self.vec[hash_val.val + 1], key, value, b)
             IN  [panic |-> r.panic,
                  self  |-> [self EXCEPT !.vec[hash_val.val + 1] = r.bucket]]

\* the inner loop of HwC::get_norm from position i of a bucket
RECURSIVE norm_bucket(_, _, _, _)
norm_bucket(bucket, i, sum, b) ==
    IF ~sum.ok \/ i > Len(bucket) THEN sum
    ELSE LET sq == checked(bucket[i + 1] * bucket[i + 1], b)
         IN  IF ~sq.ok THEN Panicked
             ELSE norm_bucket(bucket, i + 2, checked(sum.val + sq.val, b), b)

\* the outer loop of HwC::get_norm from bucket j
RECURSIVE norm_from(_, _, _, _)
norm_from(vec, j, sum, b) ==
    IF ~sum.ok \/ j > Len(vec) THEN sum
    ELSE norm_from(vec, j + 1, norm_bucket(vec[j], 1, sum, b), b)

get_norm(self, b) == norm_from(self.vec, 1, Ok(0), b)

-----------------------------------------------------------------------------
(* main.rs: IndependentHash *)

\* let prime = 2u64.pow(31) - 1, with the exponent scaled to Q
prime == 2^Q - 1

IndependentHash_new(hash_len, r1, r2, r3, r4) ==
    [a |-> r1, b |-> r2, c |-> r3, d |-> r4, l |-> hash_len]

\* (k * x + c) % prime in unsigned word arithmetic
poly_step(k, x, c, b) ==
    LET m == checked(k * x, b)
    IN  IF ~m.ok THEN Panicked
        ELSE LET s == checked(m.val + c, b)
             IN  IF ~s.ok THEN Panicked ELSE Ok(s.val % prime)

\* 2u64.pow(l) - 1: for l >= W the power overflows (a panic in a debug
\* build; in a release build it wraps to 0 and 0 - 1 wraps to all ones)
index_mask(l, b) ==
    IF l < W THEN Ok(2^l - 1)
    ELSE IF b = "debug" THEN Panicked ELSE Ok(WordMod - 1)

\* the index of IndependentHash::hash from the polynomial value k
index_of_unmasked(k, mask) == k \div 2

index_of(k, mask) == (k \div 2) % (mask + 1)

\* the sign of IndependentHash::hash from the polynomial value k
sign_of(k) == 2 * (k % 2) - 1

\* IndependentHash::hash: [ok, h, g]
IndependentHash_hash(self, x, b) ==
    LET k1 == poly_step(self.a, x, self.b, b)
        k2 == IF k1.ok THEN poly_step(k1.val, x, self.c, b) ELSE Panicked
        k3 == IF k2.ok THEN poly_step(k2.val, x, self.d, b) ELSE Panicked
        mask == index_mask(self.l, b)
    IN  IF ~k3.ok \/ ~mask.ok
        THEN [ok |-> FALSE, h |-> 0, g |-> 0]
        ELSE [ok |-> TRUE, h |-> index_of(k3.val, mask.val), g |-> sign_of(k3.val)]

-----------------------------------------------------------------------------
(* main.rs: NormSketch *)

IMin == -(2^(W - 1))
IMax == 2^(W - 1) - 1
InRange(v) == IMin <= v /\ v <= IMax

\* signed + and *: overflow panics in a debug build and wraps in a release
\* build
checked_i(v, b) ==
    IF InRange(v) THEN Ok(v)
    ELSE IF b = "debug" THEN Panicked ELSE Ok(((v - IMin) % WordMod) + IMin)

NormSketch_new(r, r1, r2, r3, r4) ==
    [vec |-> [i \in 1..r |-> 0],
     hash_function |-> IndependentHash_new(log2u(r), r1, r2, r3, r4)]

\* self.vec[h] += g*value
counter_assign(counter, g, value, b) == checked_i(g * value, b)

counter_add(counter, g, value, b) ==
    LET m == checked_i(g * value, b)
    IN  IF ~m.ok THEN Panicked ELSE checked_i(counter + m.val, b)

\* NormSketch::update: [panic, self]
NormSketch_update(self, key, value, b) ==
    LET hg == IndependentHash_hash(self.hash_function, key, b)
    IN  IF ~hg.ok
        THEN [panic |-> "hash_overflow", self |-> self]
        ELSE IF hg.h >= Len(self.vec)
        THEN [panic |-> "index_out_of_bounds", self |-> self]
        ELSE LET s == counter_add(self.vec[hg.h + 1], hg.g, value, b)
             IN  IF ~s.ok
                 THEN [panic |-> "add_overflow", self |-> self]
                 ELSE [panic |-> "",
                       self  |-> [self EXCEPT !.vec[hg.h + 1] = s.val]]

-----------------------------------------------------------------------------
(* Specification of HwC: construction, then insert and get_norm calls *)

Keys == 0..MaxKey
\* values: small ones, and half the word range (two of them overflow a word)
Values == (0..MaxVal) \cup {2^(W - 1)}
\* values random_generator(1, 2^(W-1)) returns for a
RandA == {1, 2^(W - 2) + 2, 2^(W - 1) - 1}
\* values random_generator(0, 2^(W-1)) returns for b
RandB == {0, 2^(W - 1) - 3}

NoNorm == [ok |-> TRUE, val |-> -1]

InitHwC ==
    /\ build \in Builds
    /\ status = "ok"
    /\ \E size \in 1..MaxBuckets, r1 \in RandA, r2 \in RandB :
          hwc = HwC_new(size, r1, r2)
    /\ sums = [k \in Keys |-> 0]
    /\ inserted = {}
    /\ nops = 0
    /\ last_key = -1
    /\ norm_out = NoNorm
    /\ sk = Idle /\ sk_hist = Idle /\ hs = Idle /\ hs_out = Idle
    /\ ph = Idle /\ rng = Idle /\ q_out = Idle

Insert(key, value) ==
    /\ status = "ok"
    /\ nops < MaxOps
    /\ LET r == HwC_insert(hwc, key, value, build)
       IN  IF r.panic # ""
           THEN /\ status' = r.panic
                /\ UNCHANGED <<hwc, sums, inserted, nops, last_key>>
           ELSE /\ hwc' = r.self
                /\ sums' = [sums EXCEPT ![key] = @ + value]
                /\ inserted' = inserted \cup {key}
                /\ nops' = nops + 1
                /\ last_key' = key
                /\ status' = status
    /\ norm_out' = NoNorm
    /\ UNCHANGED <<build, sk, sk_hist, hs, hs_out, ph, rng, q_out>>

GetNorm ==
    /\ status = "ok"
    /\ LET r == get_norm(hwc, build)
       IN  IF r.ok
           THEN norm_out' = r /\ status' = status
           ELSE norm_out' = norm_out /\ status' = "pow_overflow"
    /\ UNCHANGED <<build, hwc, sums, inserted, nops, last_key,
                   sk, sk_hist, hs, hs_out, ph, rng, q_out>>

NextHwC ==
    \/ \E key \in Keys, value \in Values : Insert(key, value)
    \/ GetNorm

Spec == InitHwC /\ [][NextHwC]_vars


-----------------------------------------------------------------------------
(* Claims about HwC (checked under Spec) *)

\* the values stored with key in a flat bucket
ValuesOf(bucket, key) ==
    {bucket[i + 1] : i \in {j \in 1..Len(bucket) : j % 2 = 1 /\ bucket[j] = key}}

\* the keys of a flat bucket
KeysOf(bucket) ==
    {bucket[j] : j \in {i \in 1..Len(bucket) : i % 2 = 1}}

RECURSIVE SumOfSquares(_)
SumOfSquares(k) == IF k < 0 THEN 0 ELSE sums[k] * sums[k] + SumOfSquares(k - 1)

\* the exact second moment of the completed insert calls
ExactNorm == SumOfSquares(MaxKey)

\* C1: after any sequence of insert calls, the value stored with an inserted
\* key k in bucket h(k) is the sum of the values inserted for k, a key never
\* inserted has no entry, and get_norm returns the sum over the keys of the
\* squared sums, whenever these sums fit in a word.
C1_Aggregation ==
    /\ \A k \in Keys :
          IF k \in inserted
          THEN sums[k] < WordMod =>
                  LET hv == SeededHash_hash(hwc.hash_function, k, build)
                  IN  /\ hv.ok
                      /\ hv.val < Len(hwc.vec)
                      /\ ValuesOf(hwc.vec[hv.val + 1], k) = {sums[k]}
          ELSE \A i \in 1..Len(hwc.vec) : k \notin KeysOf(hwc.vec[i])
    /\ (norm_out # NoNorm /\ ExactNorm < WordMod) => norm_out = Ok(ExactNorm)

\* C1 witness: three inserts, one key inserted twice and chained in one
\* bucket with another key, and get_norm has returned 2*2 + 1*1.
C1_Witness ==
    /\ status = "ok"
    /\ nops = 3
    /\ \E k1, k2 \in Keys : k1 # k2 /\ sums[k1] = 2 /\ sums[k2] = 1
    /\ \E i \in 1..Len(hwc.vec) : Len(hwc.vec[i]) = 4
    /\ norm_out = Ok(5)

BucketsDistinct(self) ==
    \A i \in 1..Len(self.vec) :
        LET bucket == self.vec[i]
        IN  /\ Len(bucket) % 2 = 0
            /\ \A p, r \in 1..Len(bucket) :
                  (p % 2 = 1 /\ r % 2 = 1 /\ p # r) => bucket[p] # bucket[r]

KeyPresent(self, key) ==
    \E i \in 1..Len(self.vec) : key \in KeysOf(self.vec[i])

\* C7: every bucket has even length and pairwise distinct keys, and an
\* insert of a key that is already present leaves the length of every bucket
\* unchanged.
C7_BucketInvariant ==
    /\ [](BucketsDistinct(hwc))
    /\ [][\A k \in Keys :
            (KeyPresent(hwc, k) /\ nops' = nops + 1 /\ last_key' = k)
               => \A i \in 1..Len(hwc.vec) :
                     Len(hwc'.vec[i]) = Len(hwc.vec[i])]_vars

\* C7 witness: a key was inserted again while two keys share a bucket.
C7_Witness ==
    /\ nops = 3
    /\ Cardinality(inserted) = 2
    /\ \E i \in 1..Len(hwc.vec) : Cardinality(KeysOf(hwc.vec[i])) = 2

\* C10 (as claimed): for every bucket count m >= 1, m = 1 included, no insert
\* ends in a shift overflow or indexes outside the bucket array.
C10_IndexInBounds ==
    status \notin {"shift_overflow", "index_out_of_bounds"}

\* The part of C10 the code keeps (under Spec): with two or more buckets no
\* insert ends in a shift overflow or indexes outside the bucket array.
InBoundsFromTwoBuckets ==
    Len(hwc.vec) >= 2 => status \notin {"shift_overflow", "index_out_of_bounds"}


-----------------------------------------------------------------------------
(* Specification of the hash kernels: one SeededHash and one               *)
(* IndependentHash of the same length, then hash calls                     *)

\* values random_generator(1, 2^Q) returns for a, d and for b, c
RandP == {1, 2^(Q - 1), 2^Q - 1}
RandR == {1, 2^Q - 2}
\* keys: small ones, the two around the prime, and the largest word
HashKeys == {0, 1, 2, prime - 1, prime, WordMod - 1}

NoOut == [key |-> -1]

InitHash ==
    /\ build \in Builds
    /\ status = "ok"
    /\ \E l \in 0..W, r1 \in RandA, r2 \in RandB,
          p1 \in RandP, p2 \in RandR, p3 \in RandR, p4 \in RandP :
          hs = [seeded      |-> SeededHash_new(l, r1, r2),
                independent |-> IndependentHash_new(l, p1, p2, p3, p4)]
    /\ hs_out = [seeded |-> NoOut, independent |-> NoOut]
    /\ hwc = Idle /\ sums = Idle /\ inserted = Idle /\ nops = 0
    /\ last_key = -1 /\ norm_out = Idle
    /\ sk = Idle /\ sk_hist = Idle
    /\ ph = Idle /\ rng = Idle /\ q_out = Idle

CallSeededHash(x) ==
    /\ hs_out' = [hs_out EXCEPT
                    !.seeded = [key |-> x,
                                res |-> SeededHash_hash(hs.seeded, x, build)]]
    /\ UNCHANGED <<build, status, hwc, sums, inserted, nops, last_key,
                   norm_out, sk, sk_hist, hs, ph, rng, q_out>>

CallIndependentHash(x) ==
    /\ hs_out' = [hs_out EXCEPT
                    !.independent =
                       [key |-> x,
                        res |-> IndependentHash_hash(hs.independent, x, build)]]
    /\ UNCHANGED <<build, status, hwc, sums, inserted, nops, last_key,
                   norm_out, sk, sk_hist, hs, ph, rng, q_out>>

NextHash ==
    \/ \E x \in HashKeys : CallSeededHash(x)
    \/ \E x \in HashKeys : CallIndependentHash(x)

SpecHash == InitHash /\ [][NextHash]_vars

\* C3: a multiply-shift hash of length l with 0 < l <= W returns an index in
\* [0, 2^l), and the first component of what a 4-wise hash of length l
\* returns is in [0, 2^l), for every key.
C3_HashRange ==
    /\ (hs_out.seeded # NoOut /\ hs_out.seeded.res.ok
          /\ 0 < hs.seeded.l /\ hs.seeded.l <= W)
          => /\ 0 <= hs_out.seeded.res.val
             /\ hs_out.seeded.res.val < 2^(hs.seeded.l)
    /\ (hs_out.independent # NoOut /\ hs_out.independent.res.ok)
          => /\ 0 <= hs_out.independent.res.h
             /\ hs_out.independent.res.h < 2^(hs.independent.l)

\* C3 witness: both hashes of a length strictly between 0 and W returned
\* the largest index of the range.
C3_Witness ==
    /\ 0 < hs.seeded.l /\ hs.seeded.l < W
    /\ hs_out.seeded # NoOut /\ hs_out.seeded.res.ok
    /\ hs_out.seeded.res.val = 2^(hs.seeded.l) - 1
    /\ hs_out.independent # NoOut /\ hs_out.independent.res.ok
    /\ hs_out.independent.res.h = 2^(hs.independent.l) - 1

-----------------------------------------------------------------------------
(* Specification of NormSketch: construction, then update calls *)

\* NormSketch::new(r) is explored for r in 1..MaxBuckets
\* keys: two below the prime, and the largest word (its products overflow)
SketchKeys == {0, 1, WordMod - 1}
\* values random_generator(1, 2^Q) returns for a, b, c, d
SketchSeeds == {<<1, 1, 1, 1>>,
                <<2^Q - 1, 2^Q - 2, 1, 2^(Q - 1)>>,
                <<2^(Q - 1), 1, 2^Q - 2, 2^Q - 1>>}
Deltas == {IMin, -1, 1, IMax}
NoUpdate == [key |-> -1, delta |-> 0]

InitSketch ==
    /\ build \in Builds
    /\ status = "ok"
    /\ \E r \in 1..MaxBuckets, p \in SketchSeeds :
          sk = NormSketch_new(r, p[1], p[2], p[3], p[4])
    /\ sk_hist = [base |-> sk.vec, u1 |-> NoUpdate, u2 |-> NoUpdate]
    /\ nops = 0
    /\ hwc = Idle /\ sums = Idle /\ inserted = Idle
    /\ last_key = -1 /\ norm_out = Idle
    /\ hs = Idle /\ hs_out = Idle
    /\ ph = Idle /\ rng = Idle /\ q_out = Idle

Update(key, value) ==
    /\ status = "ok"
    /\ nops < MaxUpdates
    /\ LET r == NormSketch_update(sk, key, value, build)
       IN  IF r.panic # ""
           THEN /\ status' = r.panic
                /\ UNCHANGED <<sk, sk_hist, nops>>
           ELSE /\ sk' = r.self
                /\ sk_hist' = [base |-> IF sk_hist.u2 = NoUpdate
                                        THEN sk_hist.base
                                        ELSE NormSketch_update(
                                                [sk EXCEPT !.vec = sk_hist.base],
                                                sk_hist.u1.key,
                                                sk_hist.u1.delta, build).self.vec,
                               u1 |-> sk_hist.u2,
                               u2 |-> [key |-> key, delta |-> value]]
                /\ nops' = nops + 1
                /\ status' = status
    /\ UNCHANGED <<build, hwc, sums, inserted, last_key, norm_out,
                   hs, hs_out, ph, rng, q_out>>

NextSketch == \E key \in SketchKeys, value \in Deltas : Update(key, value)

SpecSketch == InitSketch /\ [][NextSketch]_vars

\* update(self, key, value) runs without any overflow
NoOverflow(self, key, value) ==
    LET hg == IndependentHash_hash(self.hash_function, key, "debug")
    IN  /\ hg.ok
        /\ NormSketch_update(self, key, value, "debug").panic = ""

\* C4: from every sketch state, for every key k and deltas a, b, update(k, a)
\* followed by update(k, b) leaves the counters equal, counter for counter,
\* to those after the single update(k, a + b), when no counter overflows;
\* and the counters after the last two update calls the sketch has run, when
\* both were for one key, are those of the single merged update.
C4_Linearity ==
    /\ status = "ok" =>
         \A k \in SketchKeys, a \in Deltas, b \in Deltas :
            LET one == NormSketch_update(sk, k, a, build)
                two == NormSketch_update(one.self, k, b, build)
                merged == NormSketch_update(sk, k, a + b, build)
            IN  (/\ InRange(a + b)
                 /\ NoOverflow(sk, k, a)
                 /\ NoOverflow(one.self, k, b)
                 /\ NoOverflow(sk, k, a + b))
                   => two.self.vec = merged.self.vec
    /\ (/\ sk_hist.u1 # NoUpdate
        /\ sk_hist.u1.key = sk_hist.u2.key
        /\ InRange(sk_hist.u1.delta + sk_hist.u2.delta)
        /\ NoOverflow([sk EXCEPT !.vec = sk_hist.base], sk_hist.u1.key,
                      sk_hist.u1.delta + sk_hist.u2.delta))
          => sk.vec = NormSketch_update([sk EXCEPT !.vec = sk_hist.base],
                                        sk_hist.u1.key,
                                        sk_hist.u1.delta + sk_hist.u2.delta,
                                        build).self.vec

\* The part of C10 about NormSketch (under SpecSketch): no update indexes
\* outside the counter array, for any r >= 1.
SketchIndexInBounds == status # "index_out_of_bounds"

\* C4 witness: the sketch ran update(k, IMax) and then update(k, -1) on a
\* key of sign -1, changing the last of several counters.
C4_Witness ==
    /\ status = "ok"
    /\ nops = 2
    /\ sk_hist.u1.key = sk_hist.u2.key
    /\ sk_hist.u1.delta = IMax /\ sk_hist.u2.delta = -1
    /\ IndependentHash_hash(sk.hash_function, sk_hist.u1.key, build).g = -1
    /\ Len(sk.vec) > 1
    /\ sk.vec[Len(sk.vec)] = -(IMax - 1)


-----------------------------------------------------------------------------
(* old_main.rs: the random source *)

\* The raw outputs of thread_rng() are read from one of a few cyclic tapes;
\* Stuck is the raw value that makes random_generator(1, 2^(W-1)) return
\* 2^(W-2).
Stuck == 2^(W - 2) - 1
Tapes == << <<0, 0, 0>>,
            <<Stuck, Stuck, Stuck>>,
            <<Stuck, Stuck, 0, 0, 0>>,
            <<0, 0, 0, 0, Stuck, Stuck>>,
            <<2, 6, 11, Stuck, 0>> >>

Raw(r) == Tapes[r.tape][r.pos]
Advance(r) == [r EXCEPT !.pos = (r.pos % Len(Tapes[r.tape])) + 1]

\* rng.gen_range(from..to)
random_generator(r, from, to) == from + (Raw(r) % (to - from))

-----------------------------------------------------------------------------
(* old_main.rs: SeededHash (u32) *)

\* const C: usize = 2
C == 2

\* SeededHash::new: [hash, rng]
Old_SeededHash_new(hash_len, r) ==
    LET rand_a == random_generator(r, 1, 2^(W - 1))
        r1 == Advance(r)
        rand_b == random_generator(r1, 1, 2^(W - 1))
    IN  [hash |-> [l |-> hash_len, a |-> rand_a, b |-> rand_b],
         rng  |-> Advance(r1)]

\* SeededHash::hash: wrapping_shr masks the shift amount to the word width
Old_SeededHash_hash(self, x) ==
    LET multiply_add == wrapping_add(wrapping_mul(self.a, x), self.b)
    IN  multiply_add \div 2^((W - self.l) % W)

-----------------------------------------------------------------------------
(* old_main.rs: Bucket *)

\* Bucket::insert: [success, self]
Bucket_insert(self, elem) ==
    LET i == Old_SeededHash_hash(self.hash_function, elem) + 1
    IN  IF self.vec[i] # 0
        THEN [success |-> FALSE, self |-> self]
        ELSE [success |-> TRUE, self |-> [self EXCEPT !.vec[i] = elem]]

\* the loop of Bucket::new from element i of input_array: [success, self]
RECURSIVE Bucket_fill(_, _, _)
Bucket_fill(bucket, input_array, i) ==
    IF i > Len(input_array) THEN [success |-> TRUE, self |-> bucket]
    ELSE LET r == Bucket_insert(bucket, input_array[i])
         IN  IF ~r.success THEN [success |-> FALSE, self |-> bucket]
             ELSE Bucket_fill(r.self, input_array, i + 1)

\* one activation of Bucket::new: [retry, bucket, rng]; retry is the
\* recursive call return Bucket::new(input_array)
Bucket_new(input_array, r) ==
    LET array_len == 2 * C * Len(input_array) * Len(input_array)
    IN  IF array_len = 0
        THEN LET h == Old_SeededHash_new(0, r)
             IN  [retry |-> FALSE,
                  bucket |-> [vec |-> <<>>, hash_function |-> h.hash],
                  rng |-> h.rng]
        ELSE LET h == Old_SeededHash_new(log2u(array_len), r)
                 filled == Bucket_fill([vec |-> [i \in 1..array_len |-> 0],
                                        hash_function |-> h.hash],
                                       input_array, 1)
             IN  [retry |-> ~filled.success,
                  bucket |-> filled.self,
                  rng |-> h.rng]

\* Bucket::query
Bucket_query(self, elem) ==
    LET i == Old_SeededHash_hash(self.hash_function, elem)
    IN  IF i >= Len(self.vec) THEN Panicked
        ELSE Ok(self.vec[i + 1] = elem)

-----------------------------------------------------------------------------
(* old_main.rs: PerfectHashing *)

\* the distribution loop of PerfectHashing::new from element i
RECURSIVE distribute(_, _, _, _)
distribute(buckets, hash_fn, input_array, i) ==
    IF i > Len(input_array) THEN buckets
    ELSE LET hash == Old_SeededHash_hash(hash_fn, input_array[i])
         IN  distribute([buckets EXCEPT ![hash + 1] = Append(@, input_array[i])],
                        hash_fn, input_array, i + 1)

\* the loop over the buckets that sums x.len().pow(2), from bucket i
RECURSIVE sum_of_squares(_, _)
sum_of_squares(buckets, i) ==
    IF i > Len(buckets) THEN 0
    ELSE Len(buckets[i]) * Len(buckets[i]) + sum_of_squares(buckets, i + 1)

\* if sum_of_squares > array_len
budget_ignored(sum, array_len) == FALSE

budget_exceeded(sum, array_len) == sum > array_len

\* one activation of PerfectHashing::new up to the budget check:
\* [panic, restart, array_len, hash_function, buckets, rng]
PerfectHashing_draw(input_array, r) ==
    LET array_len == 4 * C * Len(input_array)
    IN  IF array_len = 0
        THEN [panic |-> "ilog2_of_zero", restart |-> FALSE, array_len |-> 0,
              hash_function |-> Idle, buckets |-> <<>>, rng |-> r]
        ELSE LET h == Old_SeededHash_new(log2u(array_len), r)
                 buckets == distribute([i \in 1..array_len |-> <<>>],
                                       h.hash, input_array, 1)
             IN  [panic |-> "",
                  restart |-> budget_exceeded(sum_of_squares(buckets, 1),
                                              array_len),
                  array_len |-> array_len,
                  hash_function |-> h.hash,
                  buckets |-> buckets,
                  rng |-> h.rng]

\* PerfectHashing::query on the built structure
PerfectHashing_query(self, elem) ==
    LET hash == Old_SeededHash_hash(self.hash_function, elem)
    IN  IF hash >= Len(self.vec) THEN Panicked
        ELSE Bucket_query(self.vec[hash + 1], elem)

-----------------------------------------------------------------------------
(* Specification of PerfectHashing: construction step by step (one hash    *)
(* draw per step), then query calls                                        *)

PHInputs == { <<>>, <<1>>, <<0, 1>>, <<1, 0>>, <<1, 2, 3>>,
              <<4, 8, 12, 16, 20, 24, 28, 32, 36>> }
PHQueryKeys == {0, 1, 2, 4, 40, WordMod - 1}

NoQuery == [key |-> -1]

\* the stack has no room for one more recursive call: outer_redraws nested
\* activations of PerfectHashing::new and inner_redraws nested activations of
\* Bucket::new are pending on it
stack_exhausted(p) == p.outer_redraws + p.inner_redraws >= StackFrames

InitPH ==
    /\ build = "release"
    /\ status = "ok"
    /\ \E input \in PHInputs :
          ph = [pc |-> "new", input |-> input, array_len |-> 0,
                hash_function |-> Idle, buckets |-> <<>>, vec |-> <<>>,
                outer_redraws |-> 0, inner_redraws |-> 0]
    /\ \E t \in 1..Len(Tapes) : rng = [tape |-> t, pos |-> 1]
    /\ q_out = NoQuery
    /\ hwc = Idle /\ sums = Idle /\ inserted = Idle /\ nops = 0
    /\ last_key = -1 /\ norm_out = Idle
    /\ sk = Idle /\ sk_hist = Idle /\ hs = Idle /\ hs_out = Idle

\* PerfectHashing::new draws the outer hash, distributes the keys and checks
\* the budget; over budget it calls itself again, one activation deeper, and
\* the call that finds no room on the stack aborts the process
OuterDraw ==
    /\ status = "ok"
    /\ ph.pc = "new"
    /\ LET d == PerfectHashing_draw(ph.input, rng)
           overflow == d.panic = "" /\ d.restart /\ stack_exhausted(ph)
       IN  /\ status' = IF d.panic # "" THEN d.panic
                        ELSE IF overflow THEN "stack_overflow" ELSE status
           /\ rng' = d.rng
           /\ ph' = [ph EXCEPT
                       !.pc = IF d.panic # "" \/ overflow THEN "panicked"
                              ELSE IF d.restart THEN "new" ELSE "buckets",
                       !.array_len = d.array_len,
                       !.hash_function = d.hash_function,
                       !.buckets = d.buckets,
                       !.outer_redraws = IF d.restart /\ ~overflow
                                         THEN @ + 1 ELSE @]
    /\ UNCHANGED <<build, hwc, sums, inserted, nops, last_key, norm_out,
                   sk, sk_hist, hs, hs_out, q_out>>

\* the loop over the buckets: one activation of Bucket::new for the next
\* bucket. On a collision it calls itself again, one activation deeper, and
\* the call that finds no room on the stack aborts the process; the
\* activation that fills the bucket returns through all the pending ones.
\* The last bucket pushed completes PerfectHashing::new
BucketDraw ==
    /\ status = "ok"
    /\ ph.pc = "buckets"
    /\ LET i == Len(ph.vec) + 1
           r == Bucket_new(ph.buckets[i], rng)
           overflow == r.retry /\ stack_exhausted(ph)
       IN  /\ rng' = r.rng
           /\ status' = IF overflow THEN "stack_overflow" ELSE status
           /\ ph' = IF overflow
                    THEN [ph EXCEPT !.pc = "panicked"]
                    ELSE IF r.retry
                    THEN [ph EXCEPT !.inner_redraws = @ + 1]
                    ELSE [ph EXCEPT
                            !.vec = Append(@, r.bucket),
                            !.inner_redraws = 0,
                            !.pc = IF i = ph.array_len THEN "built" ELSE "buckets"]
    /\ UNCHANGED <<build, hwc, sums, inserted, nops, last_key,
                   norm_out, sk, sk_hist, hs, hs_out, q_out>>

Query(elem) ==
    /\ status = "ok"
    /\ ph.pc = "built"
    /\ LET r == PerfectHashing_query(ph, elem)
       IN  /\ q_out' = [key |-> elem, res |-> r]
           /\ status' = IF r.ok THEN status ELSE "index_out_of_bounds"
    /\ UNCHANGED <<build, hwc, sums, inserted, nops, last_key, norm_out,
                   sk, sk_hist, hs, hs_out, ph, rng>>

NextPH ==
    \/ OuterDraw
    \/ BucketDraw
    \/ \E elem \in PHQueryKeys : Query(elem)

SpecPH == InitPH /\ [][NextPH]_vars

\* the program always takes its next step
FairSpecPH == SpecPH /\ WF_vars(NextPH)

-----------------------------------------------------------------------------
(* Claims about PerfectHashing (checked under SpecPH and FairSpecPH) *)

InputSet == {ph.input[i] : i \in 1..Len(ph.input)}

\* the outer bucket the outer hash selects for a key
OuterIndex(key) == Old_SeededHash_hash(ph.hash_function, key) + 1

\* the sum over the outer buckets of the squared occupancies
RECURSIVE OccupancySquares(_)
OccupancySquares(i) ==
    IF i > Len(ph.buckets) THEN 0
    ELSE Len(ph.buckets[i]) * Len(ph.buckets[i]) + OccupancySquares(i + 1)

\* C2 (as claimed): on a constructed PerfectHashing, a query(q) that returns
\* returns true if and only if q is one of the input keys.
C2_QueryCorrect ==
    (ph.pc = "built" /\ q_out # NoQuery /\ q_out.res.ok)
       => q_out.res.val = (q_out.key \in InputSet)

\* C5 (as claimed): a retry cap stops the redraws, so construction never
\* recurses until the stack is exhausted: it returns a built structure or
\* stops with the construction failure the cap reports.
C5_RetryCapEnforced == status # "stack_overflow"

\* What the code keeps of C5 (under FairSpecPH): construction ends, in a
\* built structure or in the abort of the process.
ConstructionEnds == <>(ph.pc = "built" \/ status # "ok")

\* Every redraw is one more pending recursive call: the redraws are bounded
\* by the depth of the stack and by nothing else.
RedrawsWithinStack == ph.outer_redraws + ph.inner_redraws <= StackFrames

\* C6 (as claimed): a query whose outer hash selects an empty outer bucket
\* completes and returns false.
C6_EmptyBucketRejects ==
    (q_out # NoQuery /\ ph.buckets[OuterIndex(q_out.key)] = <<>>)
       => q_out.res = Ok(FALSE)

\* C8 (as claimed): in a constructed PerfectHashing every key of a non-empty
\* outer bucket is held by the slot its inner hash selects.
C8_SubTablePerfect ==
    ph.pc = "built" =>
       \A i \in 1..Len(ph.buckets) : \A j \in 1..Len(ph.buckets[i]) :
          LET k == ph.buckets[i][j]
              slot == Old_SeededHash_hash(ph.vec[i].hash_function, k) + 1
          IN  ph.vec[i].vec[slot] = k

\* C9: a draw of the outer hash whose squared occupancies sum to more than
\* the outer table size is discarded with nothing built from it and
\* construction starts again; sub-tables are built, and the structure is
\* returned, only under an outer hash that distributes the input within the
\* budget (a construction that aborts while it builds sub-tables was within
\* the budget too).
C9_CollisionBudget ==
    /\ (ph.array_len > 0 /\ OccupancySquares(1) > ph.array_len)
          => (ph.pc \in {"new", "panicked"} /\ ph.vec = <<>>)
    /\ ph.pc \in {"buckets", "built"}
          => /\ OccupancySquares(1) <= ph.array_len
             /\ ph.array_len = 4 * C * Len(ph.input)
             /\ \A i \in 1..Len(ph.buckets) :
                   {ph.buckets[i][j] : j \in 1..Len(ph.buckets[i])}
                      = {k \in InputSet : OuterIndex(k) = i}
    /\ ph.vec # <<>> => /\ ph.pc \in {"buckets", "built", "panicked"}
                        /\ OccupancySquares(1) <= ph.array_len

\* C9 witness: nine keys, a first outer hash that put them all in one bucket
\* was discarded, and the structure was built under a later one.
C9_Witness ==
    /\ ph.pc = "built"
    /\ Len(ph.input) = 9
    /\ ph.outer_redraws >= 1
    /\ OccupancySquares(1) <= ph.array_len
    /\ Len(ph.vec) = ph.array_len

=============================================================================
